---------------------------- MODULE Spec2Model ----------------------------
(***************************************************************************)
(* Model of src/EA_Image/ea_image_encoder.py: the import path of the EA    *)
(* graphics manager.  encode_ea_image() adapts one host directory entry    *)
(* and an imported RGBA buffer to the codec library;                       *)
(* encode_image_data_by_entry_type() builds, for entry type 30, a chain of *)
(* BC1 mipmap levels whose 8-byte blocks are rewritten to the console's    *)
(* byte order.                                                             *)
(*                                                                         *)
(* Byte strings are sequences over 0..255 (position j of the Python code   *)
(* is position j+1 here).  The pixel buffer is kept as its length and a    *)
(* content tag: this file never reads a pixel, it only hands the buffer to *)
(* PIL and to the codec library.                                           *)
(***************************************************************************)
EXTENDS Integers, Sequences, FiniteSets, TLC

(***************************************************************************)
(* Bounds of the model.                                                    *)
(***************************************************************************)
MaxDim == 16       \* image widths and heights offered to the chain encoder
MaxMip == 2        \* largest mipmap count
MaxSeed == 1       \* pixel-content tags 0..MaxSeed
MaxEntryDim == 2   \* widths and heights of host directory entries
MaxSlot == 20      \* longest existing slot len(ea_dir.raw_data)

(***************************************************************************)
(* Program constants.                                                      *)
(***************************************************************************)
N64Type == 30            \* the console-specific entry type
TypeMask == 127          \* h_record_id & 0x7F
MinTile == 4             \* max(4, ...): the smallest level side
BlockLen == 8            \* range(0, len(swapped), 8)

VARIABLES
    ea_dir,          \* the host's directory entry (DirEntry)
    rgba8888_data,   \* the imported pixel buffer held by the caller
    img_width,       \* the dimensions the caller holds for the import
    img_height,
    chain,           \* the last direct call of encode_image_data_by_entry_type
    twice,           \* a level's swapped bytes put through the swap once more
    ret,             \* the last call of encode_ea_image
    tasks            \* concurrent calls of encode_image_data_by_entry_type

vars == <<ea_dir, rgba8888_data, img_width, img_height, chain, twice, ret, tasks>>

Max(a, b) == IF a >= b THEN a ELSE b

RECURSIVE Pow2(_)
Pow2(n) == IF n <= 0 THEN 1 ELSE 2 * Pow2(n - 1)

\* Python's x >> i on an int: floor division by 2^i.
Shr(x, i) == x \div Pow2(i)

CeilDiv(a, b) == (a + b - 1) \div b

(***************************************************************************)
(* struct.unpack(">I", b)[0] and struct.pack("<I", mask) on 4 bytes.  The  *)
(* unsigned 32-bit value is kept as two 16-bit halves, hi * 65536 + lo,    *)
(* since it does not fit TLC's 32-bit integers.                            *)
(***************************************************************************)
UnpackBE(b) == [hi |-> b[1] * 256 + b[2], lo |-> b[3] * 256 + b[4]]

PackLE(mask) ==
    << mask.lo % 256, (mask.lo \div 256) % 256,
       mask.hi % 256, (mask.hi \div 256) % 256 >>

(***************************************************************************)
(* One pass of the loop body at lines 135-138 on the bytearray `swapped`,  *)
(* at 0-based offset j: two tuple swaps in place, then the slice           *)
(* assignment of the repacked mask.                                        *)
(***************************************************************************)
\* Mutant: the mask's bytes swapped pairwise instead of reversed as a word.
SwapBlockAtPairwise(swapped, j) ==
    [k \in 1..Len(swapped) |->
        IF k > j /\ k <= j + 8
        THEN (IF (k - j) % 2 = 1 THEN swapped[k + 1] ELSE swapped[k - 1])
        ELSE swapped[k]]

\* Mutant: the first swap written as two assignments, losing byte 0.
SwapBlockAtSequential(swapped, j) ==
    LET s1 == [swapped EXCEPT ![j + 1] = swapped[j + 2]]
        s2 == [s1 EXCEPT ![j + 3] = s1[j + 4], ![j + 4] = s1[j + 3]]
    IN  [k \in 1..Len(s2) |->
            IF k >= j + 5 /\ k <= j + 8 THEN s2[2 * j + 13 - k] ELSE s2[k]]

SwapBlockAt(swapped, j) ==
    LET s1 == [swapped EXCEPT ![j + 1] = swapped[j + 2], ![j + 2] = swapped[j + 1]]
        s2 == [s1 EXCEPT ![j + 3] = s1[j + 4], ![j + 4] = s1[j + 3]]
        mask == UnpackBE(SubSeq(s2, j + 5, j + 8))
        le == PackLE(mask)
    IN  [k \in 1..Len(s2) |-> IF k >= j + 5 /\ k <= j + 8 THEN le[k - (j + 4)] ELSE s2[k]]

\* for j in range(0, len(swapped), 8)
RECURSIVE SwapFrom(_, _)
SwapFrom(swapped, j) ==
    IF j >= Len(swapped) THEN swapped
    ELSE SwapFrom(SwapBlockAt(swapped, j), j + BlockLen)

\* Lines 132-139 for one level: bytes(swapped) after the loop.
SwapLevel(dxt1_data) == SwapFrom(dxt1_data, 0)

(***************************************************************************)
(* Collaborators outside this file.                                        *)
(***************************************************************************)
\* PIL.Image.frombytes("RGBA", (w, h), data): rejects a negative size and a
\* buffer shorter than w*h*4; a zero-sized image decodes nothing.
FromBytesOk(rgba, w, h) ==
    /\ w >= 0
    /\ h >= 0
    /\ (w = 0 \/ h = 0 \/ rgba.len >= w * h * 4)

\* The block compressor: one 8-byte block per 4x4 tile, tiles row-major,
\* a partial tile counted as a tile.  Its bytes depend on the pixels, the
\* filter and the level's size, and differ from position to position.
Tiles(w, h) == CeilDiv(w, 4) * CeilDiv(h, 4)

encode_compressed_image(rgba, filter, w, h) ==
    [k \in 1..(Tiles(w, h) * 8) |->
        (rgba.seed * 101 + filter * 53 + 16 * w + h + 7 * k) % 256]

\* ImageEncoder.encode_image(..., RGBA8888, ...): the pixels as they are
\* (the mipmaps this path may add are the library's and are left out).
encode_image(rgba, w, h) ==
    [k \in 1..(w * h * 4) |-> (rgba.seed * 101 + 3 * k) % 256]

(***************************************************************************)
(* encode_image_data_by_entry_type.  `fault` names the level at which the  *)
(* resampler or the block compressor raises (-1: neither does).  The       *)
(* result records, beside the returned DTO, the sizes handed to the        *)
(* collaborators and each level's compressed bytes before the swap.        *)
(***************************************************************************)
Raised == [status |-> "raised", encoded_image_data |-> <<>>,
           encoded_palette_data |-> <<>>, dims |-> <<>>, levels |-> <<>>]

\* Mutant: range(mipmaps_count), the last level left out.
LevelCountShort(mipmaps_count) == mipmaps_count

\* range(mipmaps_count + 1): the number of passes of the loop.
LevelCount(mipmaps_count) == mipmaps_count + 1

\* Mutant: the side floored at 1 instead of 4.
LevelDimNoFloor(side, i) == Max(1, Shr(side, i))

\* Line 128: max(4, (img_width >> i)), one side of level i.
LevelDim(side, i) == Max(MinTile, Shr(side, i))

\* Lines 127-139: the loop, from level i on.
RECURSIVE MipLoop(_, _, _, _, _, _, _, _)
MipLoop(i, final_encoded_data, rgba, w, h, mipmaps_count, filter, acc) ==
    IF i >= LevelCount(mipmaps_count)
    THEN [status |-> "returned", encoded_image_data |-> final_encoded_data,
          encoded_palette_data |-> <<>>, dims |-> acc.dims, levels |-> acc.levels]
    ELSE LET curr_w == LevelDim(w, i)
             curr_h == LevelDim(h, i)
             dxt1_data == encode_compressed_image(rgba, filter, curr_w, curr_h)
             swapped == SwapLevel(dxt1_data)
         IN  IF acc.fault = i
             THEN [Raised EXCEPT !.dims = Append(acc.dims, <<curr_w, curr_h>>)]
             ELSE MipLoop(i + 1, final_encoded_data \o swapped, rgba, w, h,
                          mipmaps_count, filter,
                          [acc EXCEPT !.dims = Append(@, <<curr_w, curr_h>>),
                                      !.levels = Append(@, dxt1_data)])

encode_image_data_by_entry_type(entry_type, rgba, w, h, mipmaps_count, filter, fault) ==
    IF entry_type = N64Type
    THEN IF ~FromBytesOk(rgba, w, h) THEN Raised
         ELSE MipLoop(0, <<>>, rgba, w, h, mipmaps_count, filter,
                      [fault |-> fault, dims |-> <<>>, levels |-> <<>>])
    ELSE IF fault >= 0 \/ w < 0 \/ h < 0 \/ rgba.len < w * h * 4 THEN Raised
         ELSE [status |-> "returned", encoded_image_data |-> encode_image(rgba, w, h),
               encoded_palette_data |-> <<>>, dims |-> <<>>, levels |-> <<>>]

(***************************************************************************)
(* Direct calls of encode_image_data_by_entry_type.  The caller imports a  *)
(* picture (a buffer with its dimensions; `short` drops the last pixel),   *)
(* calls the encoder on it, may put a level of the returned stream through *)
(* the swap once more, and drops the DTO.                                  *)
(***************************************************************************)
EntryTypes == {N64Type, 2}
Filters == {0, 1}                       \* PIL.Image.Resampling NEAREST, BILINEAR
\* A zero side is left out: what PIL's resize makes of an empty image is
\* not decided by this file.
ImportDims == {-1} \cup (1..MaxDim)
MipCounts == (-2)..MaxMip
Faults == (-1)..MaxMip

NoImport == [len |-> 0, seed |-> 0]
Idle == [status |-> "idle"]
NoTwice == [level |-> 0, bytes |-> <<>>]
NoRet == [status |-> "idle"]
NoEntry == [h_record_id |-> 0]

Import(w, h, seed, short) ==
    /\ chain.status = "idle"
    /\ rgba8888_data' = [len |-> IF w > 0 /\ h > 0 THEN w * h * 4 - (IF short THEN 4 ELSE 0) ELSE 0,
                         seed |-> seed]
    /\ img_width' = w
    /\ img_height' = h
    /\ UNCHANGED <<ea_dir, chain, twice, ret, tasks>>

CallEncoder(entry_type, mipmaps_count, filter, fault) ==
    /\ chain.status = "idle"
    /\ img_width # 0
    /\ chain' = [entry_type |-> entry_type, mipmaps_count |-> mipmaps_count,
                 filter |-> filter, fault |-> fault] @@
                encode_image_data_by_entry_type(entry_type, rgba8888_data, img_width,
                                                img_height, mipmaps_count, filter, fault)
    /\ UNCHANGED <<ea_dir, rgba8888_data, img_width, img_height, twice, ret, tasks>>

\* The bytes of level i (1-based) inside the returned stream.
LevelStart(levels, i) ==
    LET RECURSIVE Sum(_)
        Sum(n) == IF n = 0 THEN 0 ELSE Len(levels[n]) + Sum(n - 1)
    IN  Sum(i - 1)

LevelBytes(c, i) ==
    SubSeq(c.encoded_image_data, LevelStart(c.levels, i) + 1,
           LevelStart(c.levels, i) + Len(c.levels[i]))

SwapAgain(i) ==
    /\ chain.status = "returned"
    /\ twice.level = 0
    /\ i \in 1..Len(chain.levels)
    /\ twice' = [level |-> i, bytes |-> SwapLevel(LevelBytes(chain, i))]
    /\ UNCHANGED <<ea_dir, rgba8888_data, img_width, img_height, chain, ret, tasks>>

Discard ==
    /\ chain.status # "idle"
    /\ chain' = Idle
    /\ twice' = NoTwice
    /\ UNCHANGED <<ea_dir, rgba8888_data, img_width, img_height, ret, tasks>>

InitChain ==
    /\ ea_dir = NoEntry
    /\ rgba8888_data = NoImport
    /\ img_width = 0
    /\ img_height = 0
    /\ chain = Idle
    /\ twice = NoTwice
    /\ ret = NoRet
    /\ tasks = <<>>

NextChain ==
    \/ \E w \in ImportDims, h \in ImportDims, seed \in 0..MaxSeed, short \in BOOLEAN :
          Import(w, h, seed, short)
    \/ \E t \in EntryTypes, k \in MipCounts, f \in Filters, fault \in Faults :
          CallEncoder(t, k, f, fault)
    \/ \E i \in 1..(MaxMip + 1) : SwapAgain(i)
    \/ Discard

SpecChain == InitChain /\ [][NextChain]_vars

(***************************************************************************)
(* More collaborators, used by encode_ea_image only.                       *)
(***************************************************************************)
\* handle_image_swizzle_logic: a reordering of the bytes that keeps their
\* number.
handle_image_swizzle_logic(data) == [k \in 1..Len(data) |-> data[Len(data) + 1 - k]]

\* RefpackHandler().compress_data: a two-byte header and a body that is
\* the data as they are ("stored") or shorter ("halved").
compress_data(data, mode) ==
    <<16, 251>> \o (IF mode = "stored" THEN data ELSE SubSeq(data, 1, Len(data) \div 2))

\* fill_data_with_padding_to_desired_length: zero bytes appended.
fill_data_with_padding_to_desired_length(data, desired_length) ==
    data \o [k \in 1..(desired_length - Len(data)) |-> 0]

(***************************************************************************)
(* encode_ea_image.  The inputs `inp` of a call are what the collaborators *)
(* answer: swizzled (is_image_swizzled), pack ("no": is_image_compressed   *)
(* is false, else how Refpack packs), filter (the GUI's resampling         *)
(* choice) and fault, the one collaborator that raises when called (site   *)
(* "none": none does; level: the level for site "encode").                 *)
(* The result is the entry after the call and the call's outcome; beside   *)
(* the returned DTO the outcome records what the call did on the way.      *)
(***************************************************************************)
\* Line 39: h_record_id & 0x7F, the low seven bits of a non-negative id.
EntryType(d) == d.h_record_id % (TypeMask + 1)

\* Mutant: the header is rewritten for every entry type.
WakeUpAlways(d, entry_type, import_w, import_h) ==
    [d EXCEPT !.h_width = import_w, !.h_height = import_h, !.flag_swiz = 0,
              !.new_shape_width = import_w, !.new_shape_height = import_h,
              !.img_convert_data = IF d.has_img_convert_data THEN <<>> ELSE @]

\* Lines 47-62: the writes to the entry.
WakeUp(d, entry_type, import_w, import_h) ==
    IF entry_type = N64Type
    THEN [d EXCEPT !.h_width = import_w, !.h_height = import_h, !.flag_swiz = 0,
                   !.new_shape_width = import_w, !.new_shape_height = import_h,
                   !.img_convert_data = IF d.has_img_convert_data THEN <<>> ELSE @]
    ELSE d

\* Mutant: no bypass, the swizzle follows the entry's report alone.
SwizzleStepNoBypass(entry_type, swizzled) == swizzled

\* Lines 79-87: whether handle_image_swizzle_logic is called.
SwizzleStep(entry_type, swizzled) ==
    IF entry_type = N64Type THEN FALSE
    ELSE swizzled

\* Mutant: the padding is never called.
PadStepNever(encoded_data, raw_data) == FALSE

\* Line 94: whether the padding is called.
PadStep(encoded_data, raw_data) == Len(encoded_data) < Len(raw_data)

\* Mutant: the padding's failure is swallowed like the refresh's.
CaughtPaddingToo(site) == site = "refresh" \/ site = "padding"

\* Lines 103-106: the one call inside try/except.
Caught(site) == site = "refresh"

NoFault == [site |-> "none", level |-> -1]

Failure(d, old, entry_type, fault) ==
    [ea_dir |-> d,
     ret |-> [status |-> "raised", entry_type |-> entry_type, failed |-> fault,
              old |-> old, swizzled |-> FALSE, encoded_img_data |-> <<>>, encoded_palette_data |-> <<>>,
              is_palette_imported_flag |-> FALSE, partial |-> <<>>,
              swizzle_applied |-> FALSE, handed_on |-> <<>>, before_padding |-> <<>>,
              padded |-> FALSE]]

encode_ea_image(d, rgba, inp) ==
    LET entry_type == EntryType(d)
        import_w == d.h_width
        import_h == d.h_height
        d1 == WakeUp(d, entry_type, import_w, import_h)
        mipmaps_count == IF d1.h_mipmaps_count.is_int THEN d1.h_mipmaps_count.value ELSE 0
        partial_info ==
            encode_image_data_by_entry_type(
                entry_type, rgba, import_w, import_h, mipmaps_count, inp.filter,
                IF inp.fault.site = "encode" THEN inp.fault.level ELSE -1)
        swizzle == SwizzleStep(entry_type, inp.swizzled)
        handed_on == IF swizzle /\ inp.fault.site # "swizzle"
                     THEN handle_image_swizzle_logic(partial_info.encoded_image_data)
                     ELSE partial_info.encoded_image_data
        before_padding == IF inp.pack # "no" /\ inp.fault.site # "compress"
                          THEN compress_data(handed_on, inp.pack)
                          ELSE handed_on
        pad == PadStep(before_padding, d1.raw_data)
        encoded_data == IF pad /\ inp.fault.site # "padding"
                        THEN fill_data_with_padding_to_desired_length(
                                 before_padding, Len(d1.raw_data))
                        ELSE before_padding
        reached == [lookup |-> TRUE, swizzle |-> swizzle, compress |-> inp.pack # "no",
                    padding |-> pad, refresh |-> TRUE]
        site == inp.fault.site
        fails == site \in DOMAIN reached /\ reached[site]
    IN  IF ~FromBytesOk(rgba, d.h_width, d.h_height) THEN Failure(d, d, entry_type, [site |-> "frombytes", level |-> -1])
        ELSE IF site = "lookup" /\ ~Caught(site) THEN Failure(d1, d, entry_type, inp.fault)
        ELSE IF partial_info.status = "raised" THEN Failure(d1, d, entry_type, inp.fault)
        ELSE IF fails /\ ~Caught(site) THEN Failure(d1, d, entry_type, inp.fault)
        ELSE [ea_dir |-> d1,
              ret |-> [status |-> "returned", entry_type |-> entry_type,
                       failed |-> IF fails THEN inp.fault ELSE NoFault,
                       old |-> d, swizzled |-> inp.swizzled,
                       encoded_img_data |-> encoded_data,
                       encoded_palette_data |-> partial_info.encoded_palette_data,
                       is_palette_imported_flag |->
                           Len(partial_info.encoded_palette_data) > 0,
                       partial |-> partial_info.encoded_image_data,
                       swizzle_applied |-> swizzle,
                       handed_on |-> handed_on,
                       before_padding |-> before_padding,
                       padded |-> pad]]

(***************************************************************************)
(* The host: a directory entry and an imported buffer made for the entry's *)
(* dimensions (`short`: one pixel is missing).  The GUI calls              *)
(* encode_ea_image on them and takes the outcome before it calls again.    *)
(***************************************************************************)
RecordIds == {2, N64Type, N64Type + TypeMask + 1}
SlotLens == {8, MaxSlot}
MipFields == {[is_int |-> FALSE, value |-> 0]}
                \cup {[is_int |-> TRUE, value |-> v] : v \in (-1)..MaxMip}

Entries ==
    {[h_record_id |-> id, h_width |-> w, h_height |-> h, flag_swiz |-> fs,
      new_shape_width |-> 0, new_shape_height |-> 0,
      has_img_convert_data |-> hc, img_convert_data |-> IF hc THEN <<1, 2>> ELSE <<>>,
      h_mipmaps_count |-> m, raw_data |-> [k \in 1..n |-> 238]] :
        id \in RecordIds, w \in 1..MaxEntryDim, h \in 1..MaxEntryDim, fs \in {0, 1},
        hc \in BOOLEAN, m \in MipFields, n \in SlotLens}

FaultPoints ==
    {[site |-> x, level |-> -1] :
        x \in {"none", "lookup", "swizzle", "compress", "padding", "refresh"}}
      \cup {[site |-> "encode", level |-> l] : l \in 0..MaxMip}

CallInputs ==
    [swizzled : BOOLEAN, pack : {"no", "stored", "halved"}, filter : Filters,
     fault : FaultPoints]

EncodeEaImage(inp) ==
    /\ ret.status = "idle"
    /\ LET out == encode_ea_image(ea_dir, rgba8888_data, inp)
       IN  /\ ea_dir' = out.ea_dir
           /\ ret' = out.ret
    /\ UNCHANGED <<rgba8888_data, img_width, img_height, chain, twice, tasks>>

TakeOutcome ==
    /\ ret.status # "idle"
    /\ ret' = NoRet
    /\ UNCHANGED <<ea_dir, rgba8888_data, img_width, img_height, chain, twice, tasks>>

Init ==
    /\ ea_dir \in Entries
    /\ \E seed \in 0..MaxSeed, short \in BOOLEAN :
          rgba8888_data = [len |-> ea_dir.h_width * ea_dir.h_height * 4
                                     - (IF short THEN 4 ELSE 0),
                           seed |-> seed]
    /\ img_width = ea_dir.h_width
    /\ img_height = ea_dir.h_height
    /\ chain = Idle
    /\ twice = NoTwice
    /\ ret = NoRet
    /\ tasks = <<>>

Next ==
    \/ \E inp \in CallInputs : EncodeEaImage(inp)
    \/ TakeOutcome

Spec == Init /\ [][Next]_vars

(***************************************************************************)
(* Calls of encode_image_data_by_entry_type running in separate tasks on   *)
(* one imported buffer.  A task's call is taken apart at its loop: the     *)
(* entry (lines 120-125), one pass of the loop per step (lines 128-139),   *)
(* the return (line 140).  final_encoded_data, i and the images are locals *)
(* of the call.                                                            *)
(***************************************************************************)
Tasks == {1, 2}
TaskDims == {MinTile, 2 * MinTile}

IdleTask == [pc |-> "idle"]

\* Mutant: final_encoded_data is one module-level buffer.
AccumulatorShared(t) == 1

\* Line 124: final_encoded_data is a local of the call of task t.
Accumulator(t) == t

TaskStart(t, entry_type, mipmaps_count, filter) ==
    /\ tasks.call[t].pc = "idle"
    /\ LET args == [entry_type |-> entry_type, rgba |-> rgba8888_data, w |-> img_width,
                    h |-> img_height, mipmaps_count |-> mipmaps_count, filter |-> filter]
       IN  IF entry_type = N64Type
           THEN tasks' = [call |-> [tasks.call EXCEPT ![t] = [pc |-> "loop", i |-> 0] @@ args],
                          final_encoded_data |->
                              [tasks.final_encoded_data EXCEPT ![Accumulator(t)] = <<>>]]
           ELSE tasks' = [tasks EXCEPT !.call[t] =
                              [pc |-> "done",
                               encoded_image_data |-> encode_image(args.rgba, args.w, args.h)]
                              @@ args]
    /\ UNCHANGED <<ea_dir, rgba8888_data, img_width, img_height, chain, twice, ret>>

TaskLevel(t) ==
    LET c == tasks.call[t] IN
    /\ c.pc = "loop"
    /\ c.i < LevelCount(c.mipmaps_count)
    /\ LET curr_w == LevelDim(c.w, c.i)
           curr_h == LevelDim(c.h, c.i)
           dxt1_data == encode_compressed_image(c.rgba, c.filter, curr_w, curr_h)
           swapped == SwapLevel(dxt1_data)
       IN  tasks' = [call |-> [tasks.call EXCEPT ![t].i = c.i + 1],
                     final_encoded_data |->
                         [tasks.final_encoded_data EXCEPT ![Accumulator(t)] = @ \o swapped]]
    /\ UNCHANGED <<ea_dir, rgba8888_data, img_width, img_height, chain, twice, ret>>

TaskReturn(t) ==
    LET c == tasks.call[t] IN
    /\ c.pc = "loop"
    /\ c.i >= LevelCount(c.mipmaps_count)
    /\ tasks' = [tasks EXCEPT !.call[t] =
                    [pc |-> "done",
                     encoded_image_data |-> tasks.final_encoded_data[Accumulator(t)]]
                    @@ [entry_type |-> c.entry_type, rgba |-> c.rgba, w |-> c.w, h |-> c.h,
                        mipmaps_count |-> c.mipmaps_count, filter |-> c.filter]]
    /\ UNCHANGED <<ea_dir, rgba8888_data, img_width, img_height, chain, twice, ret>>

TaskTake(t) ==
    /\ tasks.call[t].pc = "done"
    /\ tasks' = [tasks EXCEPT !.call[t] = IdleTask]
    /\ UNCHANGED <<ea_dir, rgba8888_data, img_width, img_height, chain, twice, ret>>

InitTasks ==
    /\ ea_dir = NoEntry
    /\ img_width \in TaskDims
    /\ img_height \in TaskDims
    /\ \E seed \in 0..MaxSeed :
          rgba8888_data = [len |-> img_width * img_height * 4, seed |-> seed]
    /\ chain = Idle
    /\ twice = NoTwice
    /\ ret = NoRet
    /\ tasks = [call |-> [t \in Tasks |-> IdleTask],
                final_encoded_data |-> [t \in Tasks |-> <<>>]]

NextTasks ==
    \E t \in Tasks :
        \/ \E e \in EntryTypes, k \in 0..MaxMip, f \in Filters : TaskStart(t, e, k, f)
        \/ TaskLevel(t)
        \/ TaskReturn(t)
        \/ TaskTake(t)

SpecTasks == InitTasks /\ [][NextTasks]_vars

(***************************************************************************)
(* Properties of the chain encoder.                                        *)
(***************************************************************************)
IsPow2(n) == n \in {Pow2(e) : e \in 0..10}

\* The rewrite of the contract, position by position: group g becomes
\* [g[1], g[0], g[3], g[2], g[7], g[6], g[5], g[4]].
GroupOrder == <<2, 1, 4, 3, 8, 7, 6, 5>>

Rewritten(s) ==
    [k \in 1..Len(s) |-> s[8 * ((k - 1) \div 8) + GroupOrder[((k - 1) % 8) + 1]]]

RECURSIVE Concat(_)
Concat(ss) == IF ss = <<>> THEN <<>> ELSE Head(ss) \o Concat(Tail(ss))

N64Call == chain.status # "idle" /\ chain.entry_type = N64Type
N64Returned == chain.status = "returned" /\ chain.entry_type = N64Type

\* C1: for entry type 30 every 8-byte group g of every level's compressed
\* output appears in the returned stream, at the level's place, as
\* [g[1], g[0], g[3], g[2], g[7], g[6], g[5], g[4]]; every level is a whole
\* number of groups and no byte leaves its group.
C1_GroupRewrite ==
    N64Returned =>
        \A i \in 1..Len(chain.levels) :
            /\ Len(chain.levels[i]) % 8 = 0
            /\ LevelBytes(chain, i) = Rewritten(chain.levels[i])

C1_Witness ==
    /\ N64Returned
    /\ Len(chain.levels) >= 2
    /\ \E i \in 1..Len(chain.levels) :
          /\ Len(chain.levels[i]) >= 16
          /\ Cardinality({chain.levels[i][k] : k \in 1..16}) = 16
          /\ LevelBytes(chain, i) # chain.levels[i]

\* The levels the contract asks for: level i-1 has sides max(4, width >> (i-1))
\* and max(4, height >> (i-1)).
WantedDims(k) ==
    [i \in 1..(k + 1) |-> <<Max(4, img_width \div Pow2(i - 1)),
                            Max(4, img_height \div Pow2(i - 1))>>]

RECURSIVE SumAreas(_, _)
SumAreas(d, n) == IF n = 0 THEN 0 ELSE d[n][1] * d[n][2] + SumAreas(d, n - 1)

\* Exactly k+1 levels, level 0 first, each the compressor's output for its
\* sides, rewritten, with nothing between them.
ChainLayout ==
    LET k == chain.mipmaps_count
        want == WantedDims(k)
    IN  /\ Len(chain.levels) = k + 1
        /\ chain.dims = want
        /\ chain.encoded_image_data =
              Concat([i \in 1..(k + 1) |->
                        Rewritten(encode_compressed_image(rgba8888_data, chain.filter,
                                                          want[i][1], want[i][2]))])

\* (w_i / 4) * (h_i / 4) * 8 summed over the levels, as an exact quotient:
\* twice the length is the sum of the areas.
LengthFormula ==
    2 * Len(chain.encoded_image_data) =
        SumAreas(WantedDims(chain.mipmaps_count), chain.mipmaps_count + 1)

\* C2 as stated: for entry type 30, any width and height >= 4 and k >= 0 the
\* stream is the k+1 rewritten levels in order and its length is the sum of
\* (max(4, width>>i)/4) * (max(4, height>>i)/4) * 8.
C2_LengthAnySize ==
    (N64Returned /\ img_width >= 4 /\ img_height >= 4 /\ chain.mipmaps_count >= 0)
        => (ChainLayout /\ LengthFormula)

\* C2 amended: the layout holds for every width and height >= 4; the length
\* formula holds when width and height are powers of two.
C2_LengthPow2 ==
    (N64Returned /\ img_width >= 4 /\ img_height >= 4 /\ chain.mipmaps_count >= 0)
        => /\ ChainLayout
           /\ (IsPow2(img_width) /\ IsPow2(img_height)) => LengthFormula

C2_Witness ==
    /\ N64Returned
    /\ img_width = 8
    /\ img_height = 4
    /\ chain.mipmaps_count = 2
    /\ Len(chain.encoded_image_data) = 32

\* C3: the swap is its own inverse: a level's bytes of the returned stream,
\* put through the swap once more, are the level's compressed bytes again.
C3_SelfInverse ==
    (twice.level # 0) => twice.bytes = chain.levels[twice.level]

C3_Witness ==
    /\ twice.level # 0
    /\ Len(twice.bytes) >= 16
    /\ LevelBytes(chain, twice.level) # twice.bytes
    /\ \A k \in 1..8 : LevelBytes(chain, twice.level)[k] # twice.bytes[k]

\* C4 as stated: for positive width and height every side handed to the
\* resampler and the block compressor is at least 4 and a multiple of 4.
C4_MultipleOf4 ==
    (N64Call /\ img_width > 0 /\ img_height > 0) =>
        \A i \in 1..Len(chain.dims) :
            \A s \in 1..2 : chain.dims[i][s] >= 4 /\ chain.dims[i][s] % 4 = 0

\* C4 amended: every side is max(4, side >> i), so at least 4; it is a
\* multiple of 4 when the image's side is a power of two.
C4_AtLeast4 ==
    (N64Call /\ img_width > 0 /\ img_height > 0) =>
        \A i \in 1..Len(chain.dims) :
            /\ chain.dims[i][1] >= 4
            /\ chain.dims[i][2] >= 4
            /\ IsPow2(img_width) => chain.dims[i][1] % 4 = 0
            /\ IsPow2(img_height) => chain.dims[i][2] % 4 = 0

C4_Witness ==
    /\ N64Returned
    /\ img_width = 2
    /\ img_height = 8
    /\ chain.dims = <<(<<4, 8>>), (<<4, 4>>), (<<4, 4>>)>>

\* C5: the chain encoder fails, returning no stream, whenever width or
\* height is not positive or the mipmap count is negative.
C5_RejectsBadArguments ==
    (N64Call /\ (img_width <= 0 \/ img_height <= 0 \/ chain.mipmaps_count < 0))
        => chain.status = "raised"

(***************************************************************************)
(* Properties of encode_ea_image.                                          *)
(***************************************************************************)
Called == ret.status # "idle"
Returned == ret.status = "returned"

\* C6 as stated: every failure raised during a call, the refresh's
\* included, aborts the call; a call in which one occurred returns nothing.
C6_EveryFailureSurfaces ==
    (Called /\ ret.failed.site # "none") =>
        (ret.status = "raised" /\ ret.encoded_img_data = <<>>)

\* C6 amended: every failure but refresh_preview's aborts the call, which
\* then returns no result and no part of the stream; a failure of
\* refresh_preview is suppressed and the call returns its result.
C6_FailuresButRefreshSurface ==
    Called =>
        /\ (ret.failed.site \notin {"none", "refresh"}) =>
              (ret.status = "raised" /\ ret.encoded_img_data = <<>>)
        /\ (ret.failed.site \in {"none", "refresh"}) => ret.status = "returned"

\* Level 1 fails after level 0 was encoded.
C6_Witness ==
    /\ ret.status = "raised"
    /\ ret.entry_type = N64Type
    /\ ret.failed = [site |-> "encode", level |-> 1]
    /\ ret.old.h_mipmaps_count.value >= 1

\* The entry after the header rewrite: the import's dimensions, no swizzle
\* flag, an empty conversion cache if the entry has one.
HeaderRewritten ==
    /\ ea_dir.h_width = ret.old.h_width
    /\ ea_dir.h_height = ret.old.h_height
    /\ ea_dir.new_shape_width = ret.old.h_width
    /\ ea_dir.new_shape_height = ret.old.h_height
    /\ ea_dir.flag_swiz = 0
    /\ ea_dir.has_img_convert_data = ret.old.has_img_convert_data
    /\ ea_dir.has_img_convert_data => ea_dir.img_convert_data = <<>>
    /\ ea_dir.h_record_id = ret.old.h_record_id
    /\ ea_dir.h_mipmaps_count = ret.old.h_mipmaps_count
    /\ ea_dir.raw_data = ret.old.raw_data

\* C8 as stated: a call writes the entry exactly when the entry type is 30.
C8_WritesIffType30 ==
    Called =>
        /\ ret.entry_type = ret.old.h_record_id % 128
        /\ ret.entry_type = 30 => HeaderRewritten
        /\ ret.entry_type # 30 => ea_dir = ret.old

\* C8 amended: a call writes the entry exactly when the entry type is 30
\* and the imported buffer decodes (line 43 does not raise); the writes
\* stay when a later step fails.
C8_WritesIffType30Decoded ==
    Called =>
        /\ ret.entry_type = ret.old.h_record_id % 128
        /\ (ret.entry_type = 30 /\ ret.failed.site # "frombytes") => HeaderRewritten
        /\ (ret.entry_type # 30 \/ ret.failed.site = "frombytes") => ea_dir = ret.old

C8_Witness ==
    /\ Returned
    /\ ret.old.h_record_id = 158
    /\ ret.old.flag_swiz = 1
    /\ ret.old.img_convert_data # <<>>
    /\ ea_dir.flag_swiz = 0
    /\ ea_dir.img_convert_data = <<>>
    /\ ea_dir.new_shape_width = 2

\* C9: for entry type 30 the swizzle is never applied, whatever the swizzle
\* flag and the report: the bytes handed on are the chain encoder's; for
\* any other type it is applied exactly when the entry is reported swizzled.
C9_SwizzleBypass ==
    Returned =>
        /\ ret.entry_type = 30 =>
              (~ret.swizzle_applied /\ ret.handed_on = ret.partial)
        /\ ret.entry_type # 30 =>
              /\ ret.swizzle_applied = ret.swizzled
              /\ ret.handed_on = IF ret.swizzled
                                 THEN handle_image_swizzle_logic(ret.partial)
                                 ELSE ret.partial

C9_Witness ==
    /\ Returned
    /\ ret.entry_type = 30
    /\ ret.old.flag_swiz = 1
    /\ ret.swizzled
    /\ Len(ret.partial) >= 16
    /\ ret.handed_on = ret.partial
    /\ handle_image_swizzle_logic(ret.partial) # ret.partial

IsPrefix(a, b) == Len(a) <= Len(b) /\ SubSeq(b, 1, Len(a)) = a

\* C10: the returned image data are never shorter than the slot: padding
\* comes last, fills shorter data to the slot's length keeping them as a
\* prefix, and leaves data of at least that length as they are.
C10_NeverShorterThanSlot ==
    Returned =>
        LET slot == Len(ea_dir.raw_data)
            data == ret.encoded_img_data
        IN  /\ Len(data) >= slot
            /\ IsPrefix(ret.before_padding, data)
            /\ Len(ret.before_padding) < slot => Len(data) = slot
            /\ Len(ret.before_padding) >= slot => data = ret.before_padding

C10_Witness ==
    /\ Returned
    /\ ret.padded
    /\ ret.swizzle_applied
    /\ ret.before_padding # ret.handed_on
    /\ Len(ret.before_padding) > 0
    /\ Len(ret.encoded_img_data) = MaxSlot

(***************************************************************************)
(* Properties of concurrent calls.                                         *)
(***************************************************************************)
Done(t) == tasks.call[t].pc = "done"

\* The call of task t run alone, from its arguments.
RunAlone(t) ==
    LET c == tasks.call[t]
    IN  encode_image_data_by_entry_type(c.entry_type, c.rgba, c.w, c.h,
                                        c.mipmaps_count, c.filter, -1).encoded_image_data

\* C7: a call has no side effect and keeps no state: under any interleaving
\* of the tasks' calls each returns what it returns run alone, calls with
\* equal arguments return equal streams, and the caller's buffer and
\* dimensions are as they were handed over.
C7_PureAndIndependent ==
    \A t \in Tasks :
        /\ tasks.call[t].pc # "idle" =>
              /\ tasks.call[t].rgba = rgba8888_data
              /\ tasks.call[t].w = img_width
              /\ tasks.call[t].h = img_height
        /\ Done(t) => tasks.call[t].encoded_image_data = RunAlone(t)
        /\ \A u \in Tasks :
              (Done(t) /\ Done(u)
                 /\ [tasks.call[t] EXCEPT !.encoded_image_data = <<>>]
                      = [tasks.call[u] EXCEPT !.encoded_image_data = <<>>])
              => tasks.call[t].encoded_image_data = tasks.call[u].encoded_image_data

\* Both tasks are done, with different mipmap counts, on an 8x8 picture.
C7_Witness ==
    /\ Done(1)
    /\ Done(2)
    /\ tasks.call[1].entry_type = N64Type
    /\ tasks.call[2].entry_type = N64Type
    /\ tasks.call[1].mipmaps_count = 2
    /\ tasks.call[2].mipmaps_count = 1
    /\ Len(tasks.call[1].encoded_image_data) > Len(tasks.call[2].encoded_image_data)
    /\ Len(tasks.call[2].encoded_image_data) > 8

=============================================================================
